---- MODULE Spec2Model ----
(***************************************************************************)
(* A model of run.py, the HUMAnN2 batch wrapper.                           *)
(*                                                                         *)
(* Strings are sequences of one-character strings, so that startswith,     *)
(* endswith, replace, split and rstrip are computed as Python computes     *)
(* them.  A uuid is one opaque element of such a sequence.                 *)
(***************************************************************************)
EXTENDS Integers, Sequences, FiniteSets, TLC

\* ------------------------------------------------------------- bounds
\* Longest --input list explored.
MaxSamples == 2
\* Largest retry counter handed to run_cmds when the Command Runner is run on its own.
MaxRetry == 2
\* Longest file stem (in stem pieces) handed to control_file_endings.
MaxStem == 2
\* the longest accession tried
MaxAccession == 13
\* the most entries in a listed folder
MaxListing == 4
\* the most lines in a table file
MaxLines == 3

\* ------------------------------------------------------------ strings
\* str.startswith
StartsWith(s, p) == Len(s) >= Len(p) /\ SubSeq(s, 1, Len(p)) = p

\* str.endswith
EndsWith(s, p) == Len(s) >= Len(p) /\ SubSeq(s, Len(s) - Len(p) + 1, Len(s)) = p

\* str.replace(old, new): every non-overlapping occurrence, left to right
RECURSIVE Replace(_, _, _)
Replace(s, old, new) ==
    IF s = <<>> THEN <<>>
    ELSE IF StartsWith(s, old)
         THEN new \o Replace(SubSeq(s, Len(old) + 1, Len(s)), old, new)
         ELSE <<Head(s)>> \o Replace(Tail(s), old, new)

\* index of the last "/" of s, 0 when there is none
RECURSIVE LastSlash(_)
LastSlash(s) ==
    IF s = <<>> THEN 0
    ELSE IF s[Len(s)] = "/" THEN Len(s)
         ELSE LastSlash(SubSeq(s, 1, Len(s) - 1))

\* index of the first "/" of s, Len(s)+1 when there is none
RECURSIVE FirstSlash(_)
FirstSlash(s) ==
    IF s = <<>> THEN 1
    ELSE IF Head(s) = "/" THEN 1
         ELSE 1 + FirstSlash(Tail(s))

\* s.split('/')[-1]
LastSegment(s) == SubSeq(s, LastSlash(s) + 1, Len(s))

\* s.split('/')[0]
FirstSegment(s) == SubSeq(s, 1, FirstSlash(s) - 1)

\* '/'.join(s.split('/')[1:])
AfterFirstSegment(s) == SubSeq(s, FirstSlash(s) + 1, Len(s))

\* s.rstrip('/')
RECURSIVE RStripSlash(_)
RStripSlash(s) ==
    IF s # <<>> /\ s[Len(s)] = "/" THEN RStripSlash(SubSeq(s, 1, Len(s) - 1))
    ELSE s

\* os.path.join(a, b)
PathJoin(a, b) ==
    IF StartsWith(b, <<"/">>) THEN b
    ELSE IF a = <<>> \/ EndsWith(a, <<"/">>) THEN a \o b
         ELSE a \o <<"/">> \o b

\* os.path.dirname(p)
Dirname(p) ==
    LET i == LastSlash(p) IN
    IF i = 0 THEN <<>>
    ELSE IF RStripSlash(SubSeq(p, 1, i)) = <<>> THEN <<"/">>
         ELSE RStripSlash(SubSeq(p, 1, i))

\* Python's s.split(sep) for a one-character sep
RECURSIVE Split(_, _)
Split(s, sep) ==
    IF \E k \in 1..Len(s) : s[k] = sep
    THEN LET k == CHOOSE m \in 1..Len(s) :
                    s[m] = sep /\ \A q \in 1..(m - 1) : s[q] # sep
         IN  <<SubSeq(s, 1, k - 1)>> \o Split(SubSeq(s, k + 1, Len(s)), sep)
    ELSE <<s>>

\* the literals of run.py
S3Prefix   == <<"s", "3", ":", "/", "/">>
SraPrefix  == <<"s", "r", "a", ":", "/", "/">>
FtpPrefix  == <<"f", "t", "p", ":", "/", "/">>
DotJson    == <<".", "j", "s", "o", "n">>
DotGz      == <<".", "g", "z">>
DotJsonGz  == <<".", "j", "s", "o", "n", ".", "g", "z">>
DotFna     == <<".", "f", "n", "a">>
DotFa      == <<".", "f", "a">>
DotFq      == <<".", "f", "q">>
DotFasta   == <<".", "f", "a", "s", "t", "a">>
DotFastq   == <<".", "f", "a", "s", "t", "q">>

GeneFamiliesTsv == <<"_", "g", "e", "n", "e", "f", "a", "m", "i", "l", "i", "e", "s", ".", "t", "s", "v">>
PathAbundanceTsv == <<"_", "p", "a", "t", "h", "a", "b", "u", "n", "d", "a", "n", "c", "e", ".", "t", "s", "v">>
PathCoverageTsv == <<"_", "p", "a", "t", "h", "c", "o", "v", "e", "r", "a", "g", "e", ".", "t", "s", "v">>
MpaOut     == <<"m", "p", "a", ".", "o", "u", "t">>
Chocophlan == <<"c", "h", "o", "c", "o", "p", "h", "l", "a", "n">>
Uniref     == <<"u", "n", "i", "r", "e", "f">>

\* --------------------------------------------------------------- state
VARIABLES
    \* the command line: --input (split on ','), --output-folder, --ref-db
    samples, output_folder, ref_db,
    \* the program: position, loop index, locals of __main__ and run()
    pc, idx, temp_folder, input_file, db_fp, delete_db_when_finished,
    err, exitStatus,
    \* the world: local files and directories, S3 objects, the Result Records
    \* held by local files, the uuids handed out so far
    files, dirs, s3, results, uuid,
    \* history: which invocation this is, the steps taken in it, the working
    \* directories it made, counters, and the records a publish replaced
    run, hist, created, dbProvisions, dbDeletes, overwrites,
    \* history: the calls of run_cmds made since the current sample began (before
    \* the first sample: since the program began)
    cmdlog,
    \* the Command Runner alone: a call of run_cmds and what came of it
    cmdCodes, cmdRetry, cmdCatch, cmdRes,
    \* the File-Suffix Normalizer alone: a call of control_file_endings
    normIn, normOut,
    \* the accession rule of get_sra alone
    sraIn, sraOut,
    \* read_humann2_output_files alone: a directory listing and what came of it
    aggIn, aggOut,
    \* read_tsv alone: the file's lines, the header argument, what came of it
    tsvIn, tsvHeader, tsvOut

inputVars == <<samples, output_folder, ref_db>>
progVars  == <<pc, idx, temp_folder, input_file, db_fp, delete_db_when_finished,
               err, exitStatus>>
envVars   == <<files, dirs, s3, results, uuid>>
histVars  == <<run, hist, created, dbProvisions, dbDeletes, overwrites, cmdlog>>
cmdVars   == <<cmdCodes, cmdRetry, cmdCatch, cmdRes>>
normVars  == <<normIn, normOut>>
fnVars    == <<sraIn, sraOut, aggIn, aggOut, tsvIn, tsvHeader, tsvOut>>
vars == <<inputVars, progVars, envVars, histVars, cmdVars, normVars, fnVars>>

\* ------------------------------------------------------ Command Runner
\* The exit codes a process can return in the model.
ExitCodes == {0, 1, 2}

\* run_cmds(commands, retry, catchExcept), the command's successive exit codes
\* given as codes: how many times it ran, and whether the call raised
\* (AssertionError "Exit code N", the ProcessError of the design) or logged and
\* returned.  The recursive call passes retry - 1 and no catchExcept.
RECURSIVE run_cmds(_, _, _)
run_cmds_retry_off_by_one(codes, retry, catchExcept) ==
    LET exitcode == Head(codes) IN
    IF exitcode # 0 /\ retry > 1
    THEN LET r == run_cmds(Tail(codes), retry - 1, FALSE)
         IN  [r EXCEPT !.attempts = @ + 1]
    ELSE IF exitcode # 0 /\ catchExcept
         THEN [attempts |-> 1, raised |-> FALSE, swallowed |-> TRUE]
         ELSE [attempts |-> 1, raised |-> exitcode # 0, swallowed |-> FALSE]

run_cmds(codes, retry, catchExcept) ==
    LET exitcode == Head(codes) IN
    IF exitcode # 0 /\ retry > 0
    THEN LET r == run_cmds(Tail(codes), retry - 1, FALSE)
         IN  [r EXCEPT !.attempts = @ + 1]
    ELSE IF exitcode # 0 /\ catchExcept
         THEN [attempts |-> 1, raised |-> FALSE, swallowed |-> TRUE]
         ELSE [attempts |-> 1, raised |-> exitcode # 0, swallowed |-> FALSE]

\* ------------------------------------------------ File-Suffix Normalizer
\* the table of control_file_endings, in its order
SuffixTable ==
    << <<DotFna, DotFasta>>, <<DotFa, DotFasta>>, <<DotFq, DotFastq>>,
       <<DotFna \o DotGz, DotFasta \o DotGz>>,
       <<DotFa \o DotGz, DotFasta \o DotGz>>,
       <<DotFq \o DotGz, DotFastq \o DotGz>> >>

\* index of the first table row whose suffix input_file ends with, 0 if none
RECURSIVE FirstMatch(_, _)
FirstMatch(input_file_, k) ==
    IF k > Len(SuffixTable) THEN 0
    ELSE IF EndsWith(input_file_, SuffixTable[k][1]) THEN k
         ELSE FirstMatch(input_file_, k + 1)

\* control_file_endings(input_file): the path it returns
control_file_endings(input_file_) ==
    LET k == FirstMatch(input_file_, 1) IN
    IF k = 0 THEN input_file_
    ELSE Replace(input_file_, SuffixTable[k][1], SuffixTable[k][2])

\* os.rename(src, dst) succeeds when src exists and dst's directory exists
RenameOk(src, dst) == src \in files /\ (Dirname(dst) = <<>> \/ Dirname(dst) \in dirs)

\* ------------------------------------------------------------ the inputs
RefS3      == S3Prefix \o <<"b", "/", "a", ".", "f", "q">>
RefFtp     == FtpPrefix \o <<"h", "/", "a", ".", "f", "q">>
RefSra     == SraPrefix \o <<"S", "R", "R", "1">>
RefLocal   == <<"/", "d", "/", "s", ".", "f", "q">>
RefHttp    == <<"h", "t", "t", "p", ":", "/", "/", "h", "/", "x", ".", "f", "q">>
RefMissing == <<"/", "d", "/", "m", ".", "f", "q">>
SampleRefs == {RefS3, RefFtp, RefSra, RefLocal, RefHttp, RefMissing}

OutS3Slash    == S3Prefix \o <<"b", "/", "o", "/">>
OutS3NoSlash  == S3Prefix \o <<"b", "/", "o">>
OutDirSlash   == <<"/", "o", "/">>
OutDirNoSlash == <<"/", "o">>
OutputTargets == {OutS3Slash, OutS3NoSlash, OutDirSlash, OutDirNoSlash}

DbS3    == S3Prefix \o <<"b", "/", "d", "b">>
DbLocal == <<"/", "d", "b">>
RefDbs  == {DbS3, DbLocal}

\* --temp-folder
TempRoot == <<"/", "t">>

\* the --input lists: every list of 1..MaxSamples sample references
SampleLists == UNION {[1..n -> SampleRefs] : n \in 1..MaxSamples}

\* a fresh uuid4, as one opaque element
Uuid(n) == <<"u", ToString(n)>>

\* os.path.exists
PathExists(p) == p \in files \/ RStripSlash(p) \in dirs

\* shutil.rmtree(d): d and everything under it
RmTreeFiles(d) == {f \in files : ~StartsWith(f, d \o <<"/">>)}
RmTreeDirs(d)  == {x \in dirs : x # d /\ ~StartsWith(x, d \o <<"/">>)}

\* exit codes drawn for the commands of the pipeline
PipeCodes == {0, 1}

\* ---------------------------------------------------------- the pipeline
\* an uncaught exception: the interpreter exits with status 1
Raise(e) ==
    /\ pc' = "aborted"
    /\ err' = e
    /\ exitStatus' = 1

Log(step, ok) == hist' = Append(hist, [step |-> step, i |-> idx, ok |-> ok])

\* run_cmds, lines 65-66: the command is logged; r is what the call came to
CmdEntry(cmd, r) ==
    [cmd |-> cmd, i |-> idx, attempts |-> r.attempts, raised |-> r.raised,
     swallowed |-> r.swallowed]

LogCmd(cmd, r) == cmdlog' = Append(cmdlog, CmdEntry(cmd, r))

\* run(): read_prefix and output_fp
read_prefix(input_str) == LastSegment(input_str)
output_fp(input_str) ==
    RStripSlash(output_folder) \o <<"/">> \o read_prefix(input_str) \o DotJsonGz

\* run(): the existence check, against S3 (list_objects with a Prefix) or the
\* local filesystem
OutputExists(input_str) ==
    LET fp == output_fp(input_str) IN
    IF StartsWith(fp, S3Prefix)
    THEN LET rest   == SubSeq(fp, 6, Len(fp))
             bucket == FirstSegment(rest)
             prefix == AfterFirstSegment(rest)
         IN  \E o \in s3 : o.bucket = bucket /\ StartsWith(o.key, prefix)
    ELSE PathExists(fp)

\* `aws s3 cp <file> <dest>`: a dest ending in "/" (or a bare bucket) names a
\* folder and the file keeps its name under it; any other dest is the key
S3CpDest(src, dest) ==
    LET rest   == SubSeq(dest, 6, Len(dest))
        bucket == FirstSegment(rest)
        key    == AfterFirstSegment(rest)
    IN  [bucket |-> bucket,
         key    |-> IF key = <<>> \/ EndsWith(key, <<"/">>)
                    THEN key \o LastSegment(src) ELSE key]

\* `mv <file> <dest>`: into dest when it is a directory; an error when dest
\* ends in "/" and is no directory; otherwise the file is renamed to dest
MvDest(src, dest) ==
    IF RStripSlash(dest) \in dirs
    THEN [ok |-> TRUE, path |-> PathJoin(RStripSlash(dest), LastSegment(src))]
    ELSE IF EndsWith(dest, <<"/">>) \/ ~(Dirname(dest) \in dirs)
         THEN [ok |-> FALSE, path |-> <<>>]
         ELSE [ok |-> TRUE, path |-> dest]

\* the files humann2 can leave in its output folder
HumannListings ==
    { {<<"x">> \o GeneFamiliesTsv, <<"x">> \o PathAbundanceTsv, <<"x">> \o PathCoverageTsv},
      {<<"x">> \o GeneFamiliesTsv, <<"x">> \o PathAbundanceTsv},
      {<<"x">> \o GeneFamiliesTsv, <<"y">> \o GeneFamiliesTsv,
       <<"x">> \o PathAbundanceTsv, <<"x">> \o PathCoverageTsv} }

\* os.listdir(d): the names of the files directly in d
ListDir(d) == {LastSegment(f) : f \in {g \in files : Dirname(g) = d}}

\* read_humann2_output_files: the error it ends with, "none" when it returns
read_humann2_output_files(folder) ==
    LET names == ListDir(folder)
        gf == {n \in names : EndsWith(n, GeneFamiliesTsv)}
        pa == {n \in names : EndsWith(n, PathAbundanceTsv)}
        pv == {n \in names : EndsWith(n, PathCoverageTsv)}
    IN  IF Cardinality(gf) > 1 \/ Cardinality(pa) > 1 \/ Cardinality(pv) > 1
        THEN "DuplicateOutputError"
        ELSE IF gf = {} \/ pa = {} \/ pv = {}
             THEN "MissingOutputError"
             ELSE "none"

\* read_humann2_output_files, lines 293-313: the kind a file name is read as
KindOf(file) ==
    IF EndsWith(file, GeneFamiliesTsv) THEN "gene_families"
    ELSE IF EndsWith(file, PathAbundanceTsv) THEN "pathway_abund"
    ELSE IF EndsWith(file, PathCoverageTsv) THEN "pathway_cov"
    ELSE "none"

\* the loop of read_humann2_output_files as it would be without the asserts
\* of lines 296, 303 and 310: a second file of a kind replaces the first
RECURSIVE ScanOutputFilesKeepsLast(_, _, _)
ScanOutputFilesKeepsLast(listing, k, out) ==
    IF k > Len(listing)
    THEN IF {"gene_families", "pathway_abund", "pathway_cov"} \subseteq out
         THEN [error |-> "none", results |-> out]
         ELSE [error |-> "MissingOutputError", results |-> {}]
    ELSE LET kind == KindOf(listing[k].name) IN
         IF kind = "none"
         THEN ScanOutputFilesKeepsLast(listing, k + 1, out)
         ELSE IF ~listing[k].ok
         THEN [error |-> "MalformedRowError", results |-> {}]
         ELSE ScanOutputFilesKeepsLast(listing, k + 1, out \cup {kind})

\* read_humann2_output_files, lines 290-319, over the entries in the order
\* os.listdir gives them, from entry k on with the kinds in out populated: an
\* entry is a file name and whether read_tsv gets through the file (ok)
RECURSIVE ScanOutputFiles(_, _, _)
ScanOutputFiles(listing, k, out) ==
    IF k > Len(listing)
    THEN IF {"gene_families", "pathway_abund", "pathway_cov"} \subseteq out
         THEN [error |-> "none", results |-> out]
         ELSE [error |-> "MissingOutputError", results |-> {}]
    ELSE LET kind == KindOf(listing[k].name) IN
         IF kind = "none"
         THEN ScanOutputFiles(listing, k + 1, out)
         ELSE IF kind \in out
         THEN [error |-> "DuplicateOutputError", results |-> {}]
         ELSE IF ~listing[k].ok
         THEN [error |-> "MalformedRowError", results |-> {}]
         ELSE ScanOutputFiles(listing, k + 1, out \cup {kind})

\* Python's s.rstrip(c), s.lstrip(c) and s.strip(c) for one character c
RECURSIVE RStrip(_, _)
RStrip(s, c) ==
    IF s # <<>> /\ s[Len(s)] = c THEN RStrip(SubSeq(s, 1, Len(s) - 1), c) ELSE s

RECURSIVE LStrip(_, _)
LStrip(s, c) ==
    IF s # <<>> /\ s[1] = c THEN LStrip(Tail(s), c) ELSE s

Strip(s, c) == LStrip(RStrip(s, c), c)

\* dict(zip(header, fields)): a later column of the same name wins
DictZip(header, fields) ==
    [h \in {header[j] : j \in 1..Len(header)} |->
        fields[CHOOSE j \in 1..Len(header) :
                 header[j] = h /\ \A q \in (j + 1)..Len(header) : header[q] # h]]

\* the loop of read_tsv as it would be without the test of line 339: a line
\* starting with the comment character is handled like any other
RECURSIVE ReadRowsCountsComments(_, _, _, _, _)
ReadRowsCountsComments(lines, ix, header, skip_first_line, out) ==
    IF ix > Len(lines)
    THEN [error |-> "none", header |-> header, rows |-> out]
    ELSE LET line == lines[ix] IN
         IF skip_first_line /\ ix = 1
         THEN ReadRowsCountsComments(lines, ix + 1, header, skip_first_line, out)
         ELSE IF Len(Strip(line, "\n")) = 0
         THEN ReadRowsCountsComments(lines, ix + 1, header, skip_first_line, out)
         ELSE LET fields == Split(RStrip(line, "\n"), "\t") IN
              IF Len(fields) # Len(header)
              THEN [error |-> "MalformedRowError", header |-> header, rows |-> <<>>]
              ELSE ReadRowsCountsComments(lines, ix + 1, header, skip_first_line,
                                          Append(out, DictZip(header, fields)))

\* read_tsv, lines 333-349: the loop over the file's lines, from line ix on
\* (the first line is line 1 here, ix == 0 in the code)
RECURSIVE ReadRows(_, _, _, _, _)
ReadRows(lines, ix, header, skip_first_line, out) ==
    IF ix > Len(lines)
    THEN [error |-> "none", header |-> header, rows |-> out]
    ELSE LET line == lines[ix] IN
         IF skip_first_line /\ ix = 1
         THEN ReadRows(lines, ix + 1, header, skip_first_line, out)
         ELSE IF line[1] = "#"
         THEN ReadRows(lines, ix + 1, header, skip_first_line, out)
         ELSE IF Len(Strip(line, "\n")) = 0
         THEN ReadRows(lines, ix + 1, header, skip_first_line, out)
         ELSE LET fields == Split(RStrip(line, "\n"), "\t") IN
              IF Len(fields) # Len(header)
              THEN [error |-> "MalformedRowError", header |-> header, rows |-> <<>>]
              ELSE ReadRows(lines, ix + 1, header, skip_first_line,
                            Append(out, DictZip(header, fields)))

\* read_tsv(fp, header): lines is the file as its lines, each with its
\* newline; header <<>> stands for header=None
read_tsv(lines, header) ==
    IF header = <<>>
    THEN LET first == IF lines = <<>> THEN <<>> ELSE lines[1] IN
         ReadRows(lines, 1, Split(LStrip(RStrip(first, "\n"), "#"), "\t"), TRUE, <<>>)
    ELSE ReadRows(lines, 1, header, FALSE, <<>>)

\* __main__, lines 400-403: get_reference_database(args.ref_db, args.temp_folder)
get_reference_database ==
    /\ pc = "start"
    /\ IF StartsWith(ref_db, S3Prefix)
       THEN LET local_fp == PathJoin(TempRoot, Uuid(uuid + 1) \o <<".", "d", "b">>) IN
            \E code \in PipeCodes, synced \in BOOLEAN :
              /\ uuid' = uuid + 1
              /\ LogCmd("aws s3 sync", run_cmds(<<code>>, 0, FALSE))
              /\ IF run_cmds(<<code>>, 0, FALSE).raised
                 THEN /\ Raise("ProcessError")
                      /\ UNCHANGED <<dirs, db_fp, delete_db_when_finished, dbProvisions>>
                 ELSE /\ dirs' = dirs \cup {local_fp} \cup
                            (IF synced THEN {PathJoin(local_fp, Chocophlan),
                                             PathJoin(local_fp, Uniref)}
                             ELSE {})
                      /\ db_fp' = local_fp
                      /\ delete_db_when_finished' = TRUE
                      /\ dbProvisions' = dbProvisions + 1
                      /\ pc' = "checkdb"
                      /\ UNCHANGED <<err, exitStatus>>
       ELSE /\ uuid' = uuid
            /\ UNCHANGED cmdlog
            /\ IF PathExists(ref_db)
               THEN /\ db_fp' = ref_db
                    /\ delete_db_when_finished' = FALSE
                    /\ dbProvisions' = dbProvisions + 1
                    /\ pc' = "checkdb"
                    /\ UNCHANGED <<dirs, err, exitStatus>>
               ELSE /\ Raise("ConfigError")
                    /\ UNCHANGED <<dirs, db_fp, delete_db_when_finished, dbProvisions>>
    /\ UNCHANGED <<inputVars, idx, temp_folder, input_file, files, s3, results,
                   run, hist, created, dbDeletes, overwrites, cmdVars, normVars, fnVars>>

\* __main__, lines 404-406: both database subfolders must exist
CheckDb ==
    /\ pc = "checkdb"
    /\ IF PathExists(PathJoin(db_fp, Chocophlan)) /\ PathExists(PathJoin(db_fp, Uniref))
       THEN pc' = "loop" /\ UNCHANGED <<err, exitStatus>>
       ELSE Raise("ConfigError")
    /\ UNCHANGED <<inputVars, idx, temp_folder, input_file, db_fp,
                   delete_db_when_finished, envVars, histVars, cmdVars, normVars, fnVars>>

\* __main__, lines 411-415: the next sample's temp folder is made
StartSample ==
    /\ pc = "loop"
    /\ idx <= Len(samples)
    /\ temp_folder' = PathJoin(TempRoot, Uuid(uuid + 1))
    /\ uuid' = uuid + 1
    /\ dirs' = dirs \cup {temp_folder'}
    /\ created' = created \cup {temp_folder'}
    /\ pc' = "check"
    /\ Log("start", TRUE)
    /\ cmdlog' = <<>>
    /\ UNCHANGED <<inputVars, idx, input_file, db_fp, delete_db_when_finished, err,
                   exitStatus, files, s3, results, run, dbProvisions,
                   dbDeletes, overwrites, cmdVars, normVars, fnVars>>

\* run(), lines 217-236: skip the sample when its output exists
ExistenceCheck ==
    /\ pc = "check"
    /\ IF OutputExists(samples[idx])
       THEN pc' = "rmtree" /\ Log("skip", TRUE)
       ELSE pc' = "fetch" /\ UNCHANGED hist
    /\ UNCHANGED <<inputVars, idx, temp_folder, input_file, db_fp,
                   delete_db_when_finished, err, exitStatus, envVars, run, created,
                   dbProvisions, dbDeletes, overwrites, cmdlog, cmdVars, normVars, fnVars>>

\* get_sra, line 19: the ENA base URL
EnaBase == <<"f", "t", "p", ":", "/", "/", "f", "t", "p", ".", "s", "r", "a", ".", "e", "b", "i", ".", "a", "c", ".", "u", "k", "/", "v", "o", "l", "1", "/", "f", "a", "s", "t", "q">>

\* get_sra, line 37: the three file endings
file_endings ==
    << <<"_", "1">> \o DotFastq \o DotGz,
       <<"_", "2">> \o DotFastq \o DotGz,
       DotFastq \o DotGz >>

\* get_sra, lines 19-35, as it would be were an 11-character accession padded
\* with two zeros like a 10-character one
SraUrlPadsTwo(accession) ==
    LET n       == Len(accession)
        folder1 == SubSeq(accession, 1, IF n < 6 THEN n ELSE 6)
        folder2 == IF n = 10 THEN <<"0", "0">> \o SubSeq(accession, n, n)
                   ELSE IF n = 11 THEN <<"0", "0">> \o SubSeq(accession, n - 1, n)
                   ELSE SubSeq(accession, n - 2, n)
        url1    == EnaBase \o <<"/">> \o folder1
        url2    == IF n > 9 THEN url1 \o <<"/">> \o folder2 ELSE url1
    IN  IF n > 12
        THEN [rejected |-> TRUE, url |-> <<>>]
        ELSE [rejected |-> FALSE,
              url |-> url2 \o <<"/">> \o accession \o <<"/">> \o accession]

\* get_sra, lines 19-35: the URL the accession's files are fetched from, or
\* the rejection of an accession of more than 12 characters
SraUrl(accession) ==
    LET n       == Len(accession)
        folder1 == SubSeq(accession, 1, IF n < 6 THEN n ELSE 6)
        folder2 == IF n = 10 THEN <<"0", "0">> \o SubSeq(accession, n, n)
                   ELSE IF n = 11 THEN <<"0">> \o SubSeq(accession, n - 1, n)
                   ELSE SubSeq(accession, n - 2, n)
        url1    == EnaBase \o <<"/">> \o folder1
        url2    == IF n > 9 THEN url1 \o <<"/">> \o folder2 ELSE url1
    IN  IF n > 12
        THEN [rejected |-> TRUE, url |-> <<>>]
        ELSE [rejected |-> FALSE,
              url |-> url2 \o <<"/">> \o accession \o <<"/">> \o accession]

\* get_sra, lines 36-40: the wget commands issued, one per file ending
SraCommands(accession) ==
    IF SraUrl(accession).rejected THEN <<>>
    ELSE [k \in 1..3 |-> SraUrl(accession).url \o file_endings[k]]

\* get_sra as it would be were the wgets run without catchExcept: the first
\* failed download ends the function
get_sra_intolerant(accession, folder) ==
    LET local_path == PathJoin(folder, accession \o DotFastq)
        variant(k) == folder \o <<"/">> \o accession \o file_endings[k]
        n          == Len(SraCommands(accession))
    IN
    IF n = 0
    THEN /\ Raise("AssertionError")
         /\ Log("fetch", FALSE)
         /\ UNCHANGED <<files, input_file, cmdlog>>
    ELSE \E codes \in [1..n -> PipeCodes] :
           LET rs   == [k \in 1..n |-> run_cmds(<<codes[k]>>, 0, FALSE)]
               last == IF \E k \in 1..n : rs[k].raised
                       THEN CHOOSE k \in 1..n :
                              rs[k].raised /\ \A j \in 1..(k - 1) : ~rs[j].raised
                       ELSE n
               got  == files \cup {variant(k) : k \in {j \in 1..last : codes[j] = 0}}
           IN  /\ cmdlog' = cmdlog \o [k \in 1..last |-> CmdEntry("wget", rs[k])]
               /\ IF rs[last].raised
                  THEN /\ Raise("ProcessError")
                       /\ Log("fetch", FALSE)
                       /\ files' = got
                       /\ UNCHANGED input_file
                  ELSE /\ files' = (got \cup {local_path}) \ {variant(k) : k \in 1..n}
                       /\ input_file' = local_path
                       /\ pc' = "normalize"
                       /\ Log("fetch", TRUE)
                       /\ UNCHANGED <<err, exitStatus>>

\* get_sra(accession, temp_folder): the URL, three tolerated wgets (a wget that
\* exits 0 has written its file, one that fails has written none), the
\* assertion that one file arrived, gunzip of what arrived into
\* <accession>.fastq, and the unlinking of the downloaded files
get_sra(accession, folder) ==
    LET local_path == PathJoin(folder, accession \o DotFastq)
        variant(k) == folder \o <<"/">> \o accession \o file_endings[k]
        n          == Len(SraCommands(accession))
    IN
    IF n = 0
    THEN /\ Raise("AssertionError")
         /\ Log("fetch", FALSE)
         /\ UNCHANGED <<files, input_file, cmdlog>>
    ELSE \E codes \in [1..n -> PipeCodes] :
           LET rs   == [k \in 1..n |-> run_cmds(<<codes[k]>>, 0, TRUE)]
               last == IF \E k \in 1..n : rs[k].raised
                       THEN CHOOSE k \in 1..n :
                              rs[k].raised /\ \A j \in 1..(k - 1) : ~rs[j].raised
                       ELSE n
               got  == files \cup {variant(k) : k \in {j \in 1..last : codes[j] = 0}}
           IN  /\ cmdlog' = cmdlog \o [k \in 1..last |-> CmdEntry("wget", rs[k])]
               /\ IF rs[last].raised
                  THEN /\ Raise("ProcessError")
                       /\ Log("fetch", FALSE)
                       /\ files' = got
                       /\ UNCHANGED input_file
                  ELSE IF ~\E k \in 1..n : variant(k) \in got
                  THEN /\ Raise("FetchError")
                       /\ Log("fetch", FALSE)
                       /\ files' = got
                       /\ UNCHANGED input_file
                  ELSE /\ files' = (got \cup {local_path}) \ {variant(k) : k \in 1..n}
                       /\ input_file' = local_path
                       /\ pc' = "normalize"
                       /\ Log("fetch", TRUE)
                       /\ UNCHANGED <<err, exitStatus>>

\* run(), line 239: get_reads_from_url(input_str, temp_folder)
get_reads_from_url ==
    /\ pc = "fetch"
    /\ LET input_str  == samples[idx]
           filename   == LastSegment(input_str)
           local_path == PathJoin(temp_folder, filename)
       IN  IF ~(StartsWith(input_str, S3Prefix) \/ StartsWith(input_str, SraPrefix)
                  \/ StartsWith(input_str, FtpPrefix))
           THEN IF PathExists(input_str)
                THEN /\ input_file' = input_str
                     /\ pc' = "normalize"
                     /\ Log("fetch", TRUE)
                     /\ UNCHANGED cmdlog
                     /\ UNCHANGED <<files, err, exitStatus>>
                ELSE /\ Raise("NotFoundError")
                     /\ Log("fetch", FALSE)
                     /\ UNCHANGED cmdlog
                     /\ UNCHANGED <<files, input_file>>
           ELSE IF StartsWith(input_str, S3Prefix) \/ StartsWith(input_str, FtpPrefix)
           THEN \E code \in PipeCodes :
                  IF run_cmds(<<code>>, 0, FALSE).raised
                  THEN /\ Raise("ProcessError")
                       /\ Log("fetch", FALSE)
                       /\ LogCmd(IF StartsWith(input_str, S3Prefix) THEN "aws s3 cp" ELSE "wget", run_cmds(<<code>>, 0, FALSE))
                       /\ UNCHANGED <<files, input_file>>
                  ELSE /\ files' = files \cup {local_path}
                       /\ input_file' = local_path
                       /\ pc' = "normalize"
                       /\ Log("fetch", TRUE)
                       /\ LogCmd(IF StartsWith(input_str, S3Prefix) THEN "aws s3 cp" ELSE "wget", run_cmds(<<code>>, 0, FALSE))
                       /\ UNCHANGED <<err, exitStatus>>
           ELSE IF StartsWith(input_str, SraPrefix)
           THEN get_sra(filename, temp_folder)
           ELSE /\ Raise("UnrecognizedSchemeError")
                /\ Log("fetch", FALSE)
                /\ UNCHANGED cmdlog
                /\ UNCHANGED <<files, input_file>>
    /\ UNCHANGED <<inputVars, idx, temp_folder, db_fp, delete_db_when_finished,
                   dirs, s3, results, uuid, run, created, dbProvisions, dbDeletes,
                   overwrites, cmdVars, normVars, fnVars>>

\* run(), line 242: control_file_endings(input_file), with its os.rename
Normalize ==
    /\ pc = "normalize"
    /\ LET new_file == control_file_endings(input_file) IN
       IF FirstMatch(input_file, 1) = 0
       THEN /\ pc' = "metaphlan"
            /\ Log("normalize", TRUE)
            /\ UNCHANGED <<input_file, files, err, exitStatus>>
       ELSE IF RenameOk(input_file, new_file)
            THEN /\ files' = (files \ {input_file}) \cup {new_file}
                 /\ input_file' = new_file
                 /\ pc' = "metaphlan"
                 /\ Log("normalize", TRUE)
                 /\ UNCHANGED <<err, exitStatus>>
            ELSE /\ Raise("OSError")
                 /\ Log("normalize", FALSE)
                 /\ UNCHANGED <<input_file, files>>
    /\ UNCHANGED <<inputVars, idx, temp_folder, db_fp, delete_db_when_finished,
                   dirs, s3, results, uuid, run, created, dbProvisions, dbDeletes,
                   overwrites, cmdlog, cmdVars, normVars, fnVars>>

\* metaphlan2.py as it would be were a failed command caught and the sample
\* carried on
MetaphlanContinues ==
    /\ pc = "metaphlan"
    /\ \E code \in PipeCodes :
         /\ files' = files \cup {PathJoin(temp_folder, MpaOut)}
         /\ pc' = "humann2"
         /\ Log("metaphlan", ~run_cmds(<<code>>, 0, FALSE).raised)
         /\ LogCmd("metaphlan2.py", run_cmds(<<code>>, 0, FALSE))
         /\ UNCHANGED <<err, exitStatus>>
    /\ UNCHANGED <<inputVars, idx, temp_folder, input_file, db_fp,
                   delete_db_when_finished, dirs, s3, results, uuid, run, created,
                   dbProvisions, dbDeletes, overwrites, cmdVars, normVars, fnVars>>

\* run(), lines 244-256: metaphlan2.py, writing mpa.out
Metaphlan ==
    /\ pc = "metaphlan"
    /\ \E code \in PipeCodes :
         IF run_cmds(<<code>>, 0, FALSE).raised
         THEN /\ Raise("ProcessError")
              /\ Log("metaphlan", FALSE)
              /\ LogCmd("metaphlan2.py", run_cmds(<<code>>, 0, FALSE))
              /\ UNCHANGED files
         ELSE /\ files' = files \cup {PathJoin(temp_folder, MpaOut)}
              /\ pc' = "humann2"
              /\ Log("metaphlan", TRUE)
              /\ LogCmd("metaphlan2.py", run_cmds(<<code>>, 0, FALSE))
              /\ UNCHANGED <<err, exitStatus>>
    /\ UNCHANGED <<inputVars, idx, temp_folder, input_file, db_fp,
                   delete_db_when_finished, dirs, s3, results, uuid, run, created,
                   dbProvisions, dbDeletes, overwrites, cmdVars, normVars, fnVars>>

\* run(), lines 258-270: humann2, writing its tables into the temp folder
Humann2 ==
    /\ pc = "humann2"
    /\ \E code \in PipeCodes, listing \in HumannListings :
         IF run_cmds(<<code>>, 0, FALSE).raised
         THEN /\ Raise("ProcessError")
              /\ Log("humann2", FALSE)
              /\ LogCmd("humann2", run_cmds(<<code>>, 0, FALSE))
              /\ UNCHANGED files
         ELSE /\ files' = files \cup {PathJoin(temp_folder, n) : n \in listing}
              /\ pc' = "aggregate"
              /\ Log("humann2", TRUE)
              /\ LogCmd("humann2", run_cmds(<<code>>, 0, FALSE))
              /\ UNCHANGED <<err, exitStatus>>
    /\ UNCHANGED <<inputVars, idx, temp_folder, input_file, db_fp,
                   delete_db_when_finished, dirs, s3, results, uuid, run, created,
                   dbProvisions, dbDeletes, overwrites, cmdVars, normVars, fnVars>>

\* the collection step as it would be without the asserts of lines 316-317:
\* the sample goes on to be published whatever the folder holds
AggregateSkipsKindCheck ==
    /\ pc = "aggregate"
    /\ \E malformed \in BOOLEAN :
         LET e == IF malformed THEN "MalformedRowError"
                  ELSE IF read_humann2_output_files(temp_folder) = "MissingOutputError"
                       THEN "none"
                       ELSE read_humann2_output_files(temp_folder)
         IN  IF e # "none"
             THEN Raise(e) /\ Log("aggregate", FALSE)
             ELSE /\ pc' = "gzip"
                  /\ Log("aggregate", TRUE)
                  /\ UNCHANGED <<err, exitStatus>>
    /\ UNCHANGED <<inputVars, idx, temp_folder, input_file, db_fp,
                   delete_db_when_finished, envVars, run, created, dbProvisions,
                   dbDeletes, overwrites, cmdlog, cmdVars, normVars, fnVars>>

\* run(), lines 272-282: the tables are collected and parsed
Aggregate ==
    /\ pc = "aggregate"
    /\ \E malformed \in BOOLEAN :
         LET e == IF malformed THEN "MalformedRowError"
                  ELSE read_humann2_output_files(temp_folder)
         IN  IF e # "none"
             THEN Raise(e) /\ Log("aggregate", FALSE)
             ELSE /\ pc' = "gzip"
                  /\ Log("aggregate", TRUE)
                  /\ UNCHANGED <<err, exitStatus>>
    /\ UNCHANGED <<inputVars, idx, temp_folder, input_file, db_fp,
                   delete_db_when_finished, envVars, run, created, dbProvisions,
                   dbDeletes, overwrites, cmdlog, cmdVars, normVars, fnVars>>

\* return_results(), lines 176-182: the record is written and gzipped
ReturnResultsGzip ==
    /\ pc = "gzip"
    /\ LET temp_fp == PathJoin(temp_folder, read_prefix(samples[idx]) \o DotJson) IN
       \E code \in PipeCodes :
         IF run_cmds(<<code>>, 0, FALSE).raised
         THEN /\ Raise("ProcessError")
              /\ Log("gzip", FALSE)
              /\ LogCmd("gzip", run_cmds(<<code>>, 0, FALSE))
              /\ files' = files \cup {temp_fp}
         ELSE /\ files' = files \cup {temp_fp \o DotGz}
              /\ pc' = "copy"
              /\ Log("gzip", TRUE)
              /\ LogCmd("gzip", run_cmds(<<code>>, 0, FALSE))
              /\ UNCHANGED <<err, exitStatus>>
    /\ UNCHANGED <<inputVars, idx, temp_folder, input_file, db_fp,
                   delete_db_when_finished, dirs, s3, results, uuid, run, created,
                   dbProvisions, dbDeletes, overwrites, cmdVars, normVars, fnVars>>

\* return_results(), lines 184-190: the artifact is copied to S3 or moved to
\* the local folder
ReturnResultsCopy ==
    /\ pc = "copy"
    /\ LET temp_fp == PathJoin(temp_folder, read_prefix(samples[idx]) \o DotJson) \o DotGz
           rec     == [input |-> samples[idx], run |-> run, i |-> idx]
       IN  \E code \in PipeCodes :
         IF StartsWith(output_folder, S3Prefix)
         THEN LET d == S3CpDest(temp_fp, output_folder) IN
              IF run_cmds(<<code>>, 0, FALSE).raised
              THEN /\ Raise("ProcessError")
                   /\ Log("copy", FALSE)
                   /\ LogCmd("aws s3 cp", run_cmds(<<code>>, 0, FALSE))
                   /\ UNCHANGED <<files, s3, results, overwrites>>
              ELSE /\ s3' = {o \in s3 : ~(o.bucket = d.bucket /\ o.key = d.key)}
                            \cup {[bucket |-> d.bucket, key |-> d.key, rec |-> rec]}
                   /\ overwrites' = overwrites \cup
                          {[old |-> o.rec, new |-> rec] :
                              o \in {x \in s3 : x.bucket = d.bucket /\ x.key = d.key}}
                   /\ pc' = "rmtree"
                   /\ Log("copy", TRUE)
                   /\ LogCmd("aws s3 cp", run_cmds(<<code>>, 0, FALSE))
                   /\ UNCHANGED <<files, results, err, exitStatus>>
         ELSE LET d == MvDest(temp_fp, output_folder) IN
              IF run_cmds(<<IF d.ok THEN code ELSE 1>>, 0, FALSE).raised
              THEN /\ Raise("ProcessError")
                   /\ Log("copy", FALSE)
                   /\ LogCmd("mv", run_cmds(<<IF d.ok THEN code ELSE 1>>, 0, FALSE))
                   /\ UNCHANGED <<files, s3, results, overwrites>>
              ELSE /\ files' = (files \ {temp_fp}) \cup {d.path}
                   /\ results' = {r \in results : r.path # d.path}
                                 \cup {[path |-> d.path, rec |-> rec]}
                   /\ overwrites' = overwrites \cup
                          {[old |-> r.rec, new |-> rec] :
                              r \in {x \in results : x.path = d.path}}
                   /\ pc' = "rmtree"
                   /\ Log("copy", TRUE)
                   /\ LogCmd("mv", run_cmds(<<IF d.ok THEN code ELSE 1>>, 0, FALSE))
                   /\ UNCHANGED <<s3, err, exitStatus>>
    /\ UNCHANGED <<inputVars, idx, temp_folder, input_file, db_fp,
                   delete_db_when_finished, dirs, uuid, run, created,
                   dbProvisions, dbDeletes, cmdVars, normVars, fnVars>>

\* __main__, line 425: shutil.rmtree(temp_folder), and on to the next sample
RmTree ==
    /\ pc = "rmtree"
    /\ files' = RmTreeFiles(temp_folder)
    /\ dirs' = RmTreeDirs(temp_folder)
    /\ idx' = idx + 1
    /\ pc' = "loop"
    /\ UNCHANGED <<inputVars, temp_folder, input_file, db_fp,
                   delete_db_when_finished, err, exitStatus, s3, results, uuid,
                   histVars, cmdVars, normVars, fnVars>>

\* the end of __main__ as it would be were the database deleted without
\* looking at delete_db_when_finished
DeleteDbAlways ==
    /\ pc = "loop"
    /\ idx > Len(samples)
    /\ files' = RmTreeFiles(db_fp)
    /\ dirs' = RmTreeDirs(db_fp)
    /\ dbDeletes' = dbDeletes + 1
    /\ pc' = "done"
    /\ exitStatus' = 0
    /\ UNCHANGED <<inputVars, idx, temp_folder, input_file, db_fp,
                   delete_db_when_finished, err, s3, results, uuid, run, hist,
                   created, dbProvisions, overwrites, cmdlog, cmdVars, normVars, fnVars>>

\* __main__, lines 427-437: after the last sample the database is deleted when
\* it was downloaded, and the program exits 0
DeleteDb ==
    /\ pc = "loop"
    /\ idx > Len(samples)
    /\ IF delete_db_when_finished
       THEN /\ files' = RmTreeFiles(db_fp)
            /\ dirs' = RmTreeDirs(db_fp)
            /\ dbDeletes' = dbDeletes + 1
       ELSE UNCHANGED <<files, dirs, dbDeletes>>
    /\ pc' = "done"
    /\ exitStatus' = 0
    /\ UNCHANGED <<inputVars, idx, temp_folder, input_file, db_fp,
                   delete_db_when_finished, err, s3, results, uuid, run, hist,
                   created, dbProvisions, overwrites, cmdlog, cmdVars, normVars, fnVars>>

\* the program is invoked a second time with the same command line, after an
\* invocation that exited 0; the filesystem and S3 are as the first left them
Rerun ==
    /\ pc = "done"
    /\ run = 1
    /\ run' = 2
    /\ pc' = "start"
    /\ idx' = 1
    /\ temp_folder' = <<>>
    /\ input_file' = <<>>
    /\ db_fp' = <<>>
    /\ delete_db_when_finished' = FALSE
    /\ err' = "none"
    /\ exitStatus' = -1
    /\ hist' = <<>>
    /\ created' = {}
    /\ dbProvisions' = 0
    /\ dbDeletes' = 0
    /\ overwrites' = {}
    /\ cmdlog' = <<>>
    /\ UNCHANGED <<inputVars, envVars, cmdVars, normVars, fnVars>>

\* the variables of the single-function specifications, at rest
CmdIdle == cmdCodes = <<>> /\ cmdRetry = 0 /\ cmdCatch = FALSE /\ cmdRes = <<>>
NormIdle == normIn = <<>> /\ normOut = <<>>
SraIdle == sraIn = <<>> /\ sraOut = <<>>
AggIdle == aggIn = <<>> /\ aggOut = <<>>
TsvIdle == tsvIn = <<>> /\ tsvHeader = <<>> /\ tsvOut = <<>>

\* the directories of the machine before the program starts; a local output
\* folder exists as well
BaseDirs == { <<"/">>, <<"/", "d">>, TempRoot, DbLocal,
              PathJoin(DbLocal, Chocophlan), PathJoin(DbLocal, Uniref) }

\* an object someone else left in the bucket: a backup copy whose key begins
\* with the key of the a.fq sample's artifact under s3://b/o
BackupObject ==
    [bucket |-> <<"b">>,
     key    |-> <<"o", "/", "a">> \o DotFq \o DotJsonGz \o <<".", "b", "a", "k">>,
     rec    |-> [input |-> <<>>, run |-> 0, i |-> 0]]

Init ==
    /\ samples \in SampleLists
    /\ output_folder \in OutputTargets
    /\ ref_db \in RefDbs
    /\ pc = "start"
    /\ idx = 1
    /\ temp_folder = <<>>
    /\ input_file = <<>>
    /\ db_fp = <<>>
    /\ delete_db_when_finished = FALSE
    /\ err = "none"
    /\ exitStatus = -1
    /\ files = {RefLocal}
    /\ dirs = BaseDirs \cup (IF StartsWith(output_folder, S3Prefix) THEN {}
                             ELSE {RStripSlash(output_folder)})
    /\ s3 \in {{}, {BackupObject}}
    /\ results = {}
    /\ uuid = 0
    /\ run = 1
    /\ hist = <<>>
    /\ created = {}
    /\ dbProvisions = 0
    /\ dbDeletes = 0
    /\ overwrites = {}
    /\ cmdlog = <<>>
    /\ CmdIdle
    /\ NormIdle
    /\ SraIdle
    /\ AggIdle
    /\ TsvIdle

Next ==
    \/ get_reference_database
    \/ CheckDb
    \/ StartSample
    \/ ExistenceCheck
    \/ get_reads_from_url
    \/ Normalize
    \/ Metaphlan
    \/ Humann2
    \/ Aggregate
    \/ ReturnResultsGzip
    \/ ReturnResultsCopy
    \/ RmTree
    \/ DeleteDb
    \/ Rerun

Spec == Init /\ [][Next]_vars

\* ------------------------------------------- the Command Runner on its own
\* the pipeline's variables, at rest
PipeIdle ==
    /\ samples = <<>> /\ output_folder = <<>> /\ ref_db = <<>>
    /\ pc = "idle" /\ idx = 1 /\ temp_folder = <<>> /\ input_file = <<>>
    /\ db_fp = <<>> /\ delete_db_when_finished = FALSE
    /\ err = "none" /\ exitStatus = -1
    /\ s3 = {} /\ results = {} /\ uuid = 0
    /\ run = 1 /\ hist = <<>> /\ created = {}
    /\ dbProvisions = 0 /\ dbDeletes = 0 /\ overwrites = {}
    /\ cmdlog = <<>>

\* a call run_cmds(commands, retry, catchExcept) of a command whose successive
\* executions would exit with cmdCodes
CmdInit ==
    /\ PipeIdle
    /\ files = {} /\ dirs = {}
    /\ NormIdle
    /\ SraIdle
    /\ AggIdle
    /\ TsvIdle
    /\ cmdCodes \in [1..(MaxRetry + 1) -> ExitCodes]
    /\ cmdRetry \in 0..MaxRetry
    /\ cmdCatch \in BOOLEAN
    /\ cmdRes = <<>>

CallRunCmds ==
    /\ cmdRes = <<>>
    /\ cmdCodes # <<>>
    /\ cmdRes' = <<run_cmds(cmdCodes, cmdRetry, cmdCatch)>>
    /\ UNCHANGED <<inputVars, progVars, envVars, histVars, cmdCodes, cmdRetry,
                   cmdCatch, normVars, fnVars>>

CmdNext == CallRunCmds

SpecCmd == CmdInit /\ [][CmdNext]_vars

\* ---------------------------------------- the Suffix Normalizer on its own
\* file stems: "a" and then up to MaxStem pieces, some of them suffix texts
StemPieces == {<<"b">>, DotFa, DotFq}

RECURSIVE StemTails(_)
StemTails(n) ==
    IF n = 0 THEN {<<>>}
    ELSE StemTails(n - 1) \cup {s \o p : s \in StemTails(n - 1), p \in StemPieces}

Stems == {<<"a">> \o t : t \in StemTails(MaxStem)}

NormDirs == {<<>>, <<"/", "d", "/">>, <<"/", "d">> \o DotFq \o <<"/">>}

NormSuffixes ==
    {SuffixTable[k][1] : k \in 1..Len(SuffixTable)}
        \cup {<<>>, DotGz, DotFasta, DotFastq, DotFq \o <<".", "b", "a", "k">>}

NormPaths == {d \o s \o x : d \in NormDirs, s \in Stems, x \in NormSuffixes}

\* a call control_file_endings(normIn) on a machine where the file exists
NormInit ==
    /\ PipeIdle
    /\ CmdIdle
    /\ SraIdle
    /\ AggIdle
    /\ TsvIdle
    /\ normIn \in NormPaths
    /\ normOut = <<>>
    /\ files = {normIn}
    /\ dirs = {<<"/">>, <<"/", "d">>, <<"/", "d">> \o DotFq}

CallControlFileEndings ==
    /\ normOut = <<>>
    /\ normIn # <<>>
    /\ LET new_file == control_file_endings(normIn) IN
       IF FirstMatch(normIn, 1) = 0
       THEN /\ normOut' = <<[path |-> normIn, renames |-> 0, error |-> "none"]>>
            /\ UNCHANGED files
       ELSE IF RenameOk(normIn, new_file)
            THEN /\ normOut' = <<[path |-> new_file, renames |-> 1, error |-> "none"]>>
                 /\ files' = (files \ {normIn}) \cup {new_file}
            ELSE /\ normOut' = <<[path |-> <<>>, renames |-> 0, error |-> "OSError"]>>
                 /\ UNCHANGED files
    /\ UNCHANGED <<inputVars, progVars, dirs, s3, results, uuid, histVars, cmdVars,
                   normIn, fnVars>>

NormNext == CallControlFileEndings

SpecNorm == NormInit /\ [][NormNext]_vars

\* ------------------------------------- the accession URL on its own
\* accessions: "SRR" and then up to MaxAccession - 3 digits
RECURSIVE DigitStrings(_)
DigitStrings(n) ==
    IF n = 0 THEN {<<>>}
    ELSE DigitStrings(n - 1) \cup {d \o <<c>> : d \in DigitStrings(n - 1), c \in {"1", "2"}}

Accessions == {<<"S", "R", "R">> \o d : d \in DigitStrings(MaxAccession - 3)}

\* a call get_sra(sraIn, temp_folder), up to the wget commands it issues
SraInit ==
    /\ PipeIdle
    /\ CmdIdle
    /\ NormIdle
    /\ AggIdle
    /\ TsvIdle
    /\ files = {} /\ dirs = {}
    /\ sraIn \in Accessions
    /\ sraOut = <<>>

CallGetSra ==
    /\ sraOut = <<>>
    /\ sraIn # <<>>
    /\ sraOut' = <<[rejected |-> SraUrl(sraIn).rejected,
                    url      |-> SraUrl(sraIn).url,
                    commands |-> SraCommands(sraIn)]>>
    /\ UNCHANGED <<inputVars, progVars, envVars, histVars, cmdVars, normVars,
                   sraIn, aggIn, aggOut, tsvIn, tsvHeader, tsvOut>>

SraNext == CallGetSra

SpecSra == SraInit /\ [][SraNext]_vars

\* ------------------------------------------ the aggregator on its own
\* names a humann2 output folder can hold
AggNames ==
    { <<"x">> \o GeneFamiliesTsv, <<"y">> \o GeneFamiliesTsv,
      <<"x">> \o PathAbundanceTsv, <<"x">> \o PathCoverageTsv,
      MpaOut, <<"x">> \o GeneFamiliesTsv \o <<".", "b", "a", "k">> }

AggEntries == [name : AggNames, ok : BOOLEAN]

\* the listings of up to n entries with distinct names, in every order
RECURSIVE Listings(_)
Listings(n) ==
    IF n = 0 THEN {<<>>}
    ELSE Listings(n - 1) \cup
         {Append(p[1], p[2]) :
            p \in {q \in Listings(n - 1) \X AggEntries :
                     \A j \in 1..Len(q[1]) : q[1][j].name # q[2].name}}

\* a call read_humann2_output_files(folder) on a folder listed as aggIn
AggInit ==
    /\ PipeIdle
    /\ CmdIdle
    /\ NormIdle
    /\ SraIdle
    /\ TsvIdle
    /\ files = {} /\ dirs = {}
    /\ aggIn \in Listings(MaxListing)
    /\ aggOut = <<>>

CallReadHumann2OutputFiles ==
    /\ pc = "idle"
    /\ aggOut = <<>>
    /\ aggOut' = <<ScanOutputFiles(aggIn, 1, {})>>
    /\ UNCHANGED <<inputVars, progVars, envVars, histVars, cmdVars, normVars,
                   sraIn, sraOut, aggIn, tsvIn, tsvHeader, tsvOut>>

AggNext == CallReadHumann2OutputFiles

SpecAgg == AggInit /\ [][AggNext]_vars

\* -------------------------------------- the tabular parser on its own
\* what a line of a table file can hold before its newline
LineTexts ==
    { <<>>, <<"#">>, <<"#", "a", "\t", "b">>, <<"a">>, <<"a", "\t", "b">>,
      <<"a", "\t", "b", "\t", "c">>, <<"\t">> }

\* the files of up to n lines, every line ending in a newline
RECURSIVE TsvFiles(_)
TsvFiles(n) ==
    IF n = 0 THEN {<<>>}
    ELSE TsvFiles(n - 1) \cup
         {Append(f, t \o <<"\n">>) : f \in TsvFiles(n - 1), t \in LineTexts}

\* the same files, and those whose last line has text and no newline
TsvInputs ==
    TsvFiles(MaxLines) \cup
    {[f EXCEPT ![Len(f)] = RStrip(f[Len(f)], "\n")] :
        f \in {g \in TsvFiles(MaxLines) : g # <<>> /\ g[Len(g)] # <<"\n">>}}

\* header=None, and the explicit headers of one and of two columns
TsvHeaders == { <<>>, << <<"k">> >>, << <<"k">>, <<"v">> >> }

\* a call read_tsv(fp, header) on a file holding the lines tsvIn
TsvInit ==
    /\ PipeIdle
    /\ CmdIdle
    /\ NormIdle
    /\ SraIdle
    /\ AggIdle
    /\ files = {} /\ dirs = {}
    /\ tsvIn \in TsvInputs
    /\ tsvHeader \in TsvHeaders
    /\ tsvOut = <<>>

CallReadTsv ==
    /\ pc = "idle"
    /\ tsvOut = <<>>
    /\ tsvOut' = <<read_tsv(tsvIn, tsvHeader)>>
    /\ UNCHANGED <<inputVars, progVars, envVars, histVars, cmdVars, normVars,
                   sraIn, sraOut, aggIn, aggOut, tsvIn, tsvHeader>>

TsvNext == CallReadTsv

SpecTsv == TsvInit /\ [][TsvNext]_vars

\* ------------------------------------------------------------ the claims
\* the Result Records the output target holds, each with its location
TargetRecords ==
    {[loc |-> S3Prefix \o o.bucket \o <<"/">> \o o.key, rec |-> o.rec] : o \in s3}
        \cup {[loc |-> r.path, rec |-> r.rec] : r \in results}

\* sample i went through every step of run() in this invocation
Passed(i) == \E k \in 1..Len(hist) : hist[k] = [step |-> "copy", i |-> i, ok |-> TRUE]

LastEvent == hist[Len(hist)]

\* s holds sub somewhere
Contains(s, sub) == \E k \in 1..(Len(s) - Len(sub) + 1) : SubSeq(s, k, k + Len(sub) - 1) = sub

\* a reference with a scheme that is none of s3://, ftp://, sra://
HasOtherScheme(ref) ==
    /\ Contains(ref, <<":", "/", "/">>)
    /\ ~StartsWith(ref, S3Prefix)
    /\ ~StartsWith(ref, FtpPrefix)
    /\ ~StartsWith(ref, SraPrefix)

\* C1: a second run over the same samples and output target, after a first run
\* that exited 0, only skips (no fetch, no tool, no publish), and when it ends
\* the target holds exactly one Result Record for each sample.
C1_SecondRunOnlySkips ==
    /\ run = 2 =>
         \A k \in 1..Len(hist) : hist[k].step \in {"start", "skip"}
    /\ (run = 2 /\ pc = "done") =>
         \A i \in 1..Len(samples) :
            Cardinality({t \in TargetRecords : t.rec.input = samples[i]}) = 1

\* C2: a working directory is gone once its sample's processing has ended,
\* whatever the outcome: none exists after the run has ended, and while a
\* sample is processed only its own exists.
C2_WorkingDirAlwaysDeleted ==
    /\ pc \in {"done", "aborted"} => created \cap dirs = {}
    /\ created \cap dirs \subseteq {temp_folder}

\* C3: without catchExcept, run_cmds(retry = r) runs the command at most r+1
\* times, stops at the first exit code 0, returns normally exactly when one of
\* the first r+1 executions exits 0, and raises after r+1 nonzero exits.
C3_RetryContract ==
    (cmdRes # <<>> /\ ~cmdCatch) =>
        LET r == cmdRes[1]
            n == cmdRetry + 1
        IN  /\ r.attempts \in 1..n
            /\ \A k \in 1..(r.attempts - 1) : cmdCodes[k] # 0
            /\ (~r.raised) <=> (\E k \in 1..n : cmdCodes[k] = 0)
            /\ (~r.raised) => cmdCodes[r.attempts] = 0
            /\ r.raised => r.attempts = n
            /\ ~r.swallowed

\* retry = 2, two failures, then a success: three executions and no error
C3_Witness ==
    /\ cmdRes # <<>>
    /\ ~cmdCatch
    /\ cmdRetry = 2
    /\ SubSeq(cmdCodes, 1, 3) = <<1, 2, 0>>
    /\ cmdRes[1] = [attempts |-> 3, raised |-> FALSE, swallowed |-> FALSE]

\* C4: with catchExcept, a command that exits nonzero on every one of its
\* retry+1 executions is retried down to 0 and then swallowed: the call
\* returns without raising, for every retry >= 0.
C4_TolerateAfterRetries ==
    (cmdRes # <<>> /\ cmdCatch /\ \A k \in 1..(cmdRetry + 1) : cmdCodes[k] # 0) =>
        /\ ~cmdRes[1].raised
        /\ cmdRes[1].swallowed
        /\ cmdRes[1].attempts = cmdRetry + 1

\* C5: when a run has ended, the target holds exactly one record of this run
\* for each sample that passed every step and none for any other sample, and
\* no published record was written over.
C5_OneRecordPerPassedSample ==
    /\ pc \in {"done", "aborted"} =>
         \A i \in 1..Len(samples) :
            Cardinality({t \in TargetRecords : t.rec.run = run /\ t.rec.i = i})
                = IF Passed(i) THEN 1 ELSE 0
    /\ overwrites = {}

\* C6: a failed step is the last step the run takes: the program is then
\* stopped with exit status 1, and neither a later step of that sample nor any
\* step of a later sample takes place.
C6_FailFast ==
    /\ \A k \in 1..Len(hist) :
          ~hist[k].ok => (k = Len(hist) /\ pc = "aborted" /\ exitStatus = 1
                          /\ hist[k].i = idx)
    /\ \A k \in 1..Len(hist) : hist[k].i <= idx
    /\ pc = "aborted" => exitStatus = 1
    /\ exitStatus = 0 => pc = "done"

\* the taxonomic profiler failed on the first of two samples
C6_Witness ==
    /\ pc = "aborted"
    /\ Len(samples) = 2
    /\ idx = 1
    /\ hist # <<>>
    /\ LastEvent = [step |-> "metaphlan", i |-> 1, ok |-> FALSE]
    /\ err = "ProcessError"

\* C7: the artifact a publish writes is at <output_folder>/<basename>.json.gz,
\* the location the existence check tests, for every output target; and a
\* publish never replaces the artifact of a sample with another basename.
C7_PublishAtCheckedLocation ==
    /\ (pc = "rmtree" /\ hist # <<>> /\ LastEvent.step = "copy") =>
          \E t \in TargetRecords :
             /\ t.loc = output_fp(samples[idx])
             /\ t.rec = [input |-> samples[idx], run |-> run, i |-> idx]
    /\ \A w \in overwrites : read_prefix(w.old.input) = read_prefix(w.new.input)

\* C8: the database is provisioned once, before any sample; it is deleted at
\* most once, only after the last sample, only when it was downloaded from S3;
\* a local database stays; the database is there while a sample is processed.
C8_DatabaseLifecycle ==
    /\ dbProvisions <= 1
    /\ (hist # <<>> \/ pc \in {"checkdb", "loop", "done"}) => dbProvisions = 1
    /\ dbDeletes <= 1
    /\ dbDeletes = 1 =>
          /\ pc = "done"
          /\ idx = Len(samples) + 1
          /\ delete_db_when_finished
          /\ StartsWith(ref_db, S3Prefix)
          /\ created \cap dirs = {}
    /\ delete_db_when_finished <=> (dbProvisions = 1 /\ StartsWith(ref_db, S3Prefix))
    /\ {DbLocal, PathJoin(DbLocal, Chocophlan), PathJoin(DbLocal, Uniref)} \subseteq dirs
    /\ pc \in {"check", "fetch", "normalize", "metaphlan", "humann2", "aggregate",
               "gzip", "copy", "rmtree"} =>
          {db_fp, PathJoin(db_fp, Chocophlan), PathJoin(db_fp, Uniref)} \subseteq dirs

\* a downloaded database deleted after two samples, one of them published
C8_Witness ==
    /\ pc = "done"
    /\ dbDeletes = 1
    /\ Len(samples) = 2
    /\ Passed(2)
    /\ ~(db_fp \in dirs)

\* C9: resolving a reference with a scheme other than s3://, ftp://, sra://
\* fails with UnrecognizedSchemeError; a reference without a scheme is a local
\* path and fails with NotFoundError when nothing is there.
C9_UnrecognizedScheme ==
    \A k \in 1..Len(hist) :
       (hist[k].step = "fetch" /\ HasOtherScheme(samples[hist[k].i])) =>
          (~hist[k].ok /\ err = "UnrecognizedSchemeError")

\* the recognized suffix a path ends with, as a row of the table; 0 if none
RecognizedSuffix(path) ==
    IF \E k \in 1..Len(SuffixTable) : EndsWith(path, SuffixTable[k][1])
    THEN CHOOSE k \in 1..Len(SuffixTable) : EndsWith(path, SuffixTable[k][1])
    ELSE 0

\* C10: for a path ending in a recognized suffix the normalizer returns the
\* path with that trailing suffix alone replaced, every other character kept,
\* after one rename; any other path is returned as it is, with no rename.
C10_OnlyTrailingSuffixReplaced ==
    normOut # <<>> =>
        LET k == RecognizedSuffix(normIn) IN
        IF k = 0
        THEN normOut[1].path = normIn /\ normOut[1].renames = 0
        ELSE /\ normOut[1].path =
                   SubSeq(normIn, 1, Len(normIn) - Len(SuffixTable[k][1]))
                       \o SuffixTable[k][2]
             /\ normOut[1].renames = 1

\* C11: the URL of an accession is the ENA base, then the accession's first 6
\* characters, then for length 10 "00" and the last character, for length 11
\* "0" and the last 2 characters, for length 12 the last 3 characters and for
\* length <= 9 no second subfolder, then the accession twice; an accession
\* longer than 12 characters is rejected and no download command is issued
C11_AccessionSubfolders ==
    \A k \in 1..Len(sraOut) :
      LET a    == sraIn
          n    == Len(a)
          r    == sraOut[k]
          head == EnaBase \o <<"/">>
          segs == Split(SubSeq(r.url, Len(head) + 1, Len(r.url)), "/")
          m    == Len(segs)
      IN  /\ r.rejected <=> n > 12
          /\ r.rejected => r.commands = <<>>
          /\ ~r.rejected =>
                /\ StartsWith(r.url, head)
                /\ Len(r.commands) = 3
                /\ \A c \in 1..3 : StartsWith(r.commands[c], r.url)
                /\ m = (IF n <= 9 THEN 3 ELSE 4)
                /\ Len(segs[1]) = (IF n < 6 THEN n ELSE 6)
                /\ \A q \in 1..Len(segs[1]) : segs[1][q] = a[q]
                /\ n = 10 => segs[2] = <<"0", "0", a[10]>>
                /\ n = 11 => segs[2] = <<"0", a[10], a[11]>>
                /\ n = 12 => segs[2] = <<a[10], a[11], a[12]>>
                /\ segs[m - 1] = a
                /\ segs[m] = a

\* an 11-character accession has had its URL derived
C11_Witness ==
    /\ sraOut # <<>>
    /\ Len(sraIn) = 11
    /\ ~sraOut[1].rejected
    /\ Len(sraOut[1].commands) = 3

\* the number of listed names that end in suffix
SuffixCount(suffix) ==
    Cardinality({k \in 1..Len(aggIn) : EndsWith(aggIn[k].name, suffix)})

RequiredSuffixes == {GeneFamiliesTsv, PathAbundanceTsv, PathCoverageTsv}

\* what the Aggregator completeness statement says of the result r
AggregatorContract(r) ==
    /\ r.error = "none" <=> \A x \in RequiredSuffixes : SuffixCount(x) = 1
    /\ r.error = "none" => r.results = {"gene_families", "pathway_abund", "pathway_cov"}
    /\ (\E x \in RequiredSuffixes : SuffixCount(x) >= 2)
          => r.error = "DuplicateOutputError"
    /\ ((\A x \in RequiredSuffixes : SuffixCount(x) <= 1)
          /\ \E x \in RequiredSuffixes : SuffixCount(x) = 0)
          => r.error = "MissingOutputError"

LineText(line) == IF line # <<>> /\ line[Len(line)] = "\n"
                  THEN SubSeq(line, 1, Len(line) - 1) ELSE line

IsBlankLine(line) == LineText(line) = <<>>
IsCommentLine(line) == LineText(line) # <<>> /\ LineText(line)[1] = "#"
IsDataLine(line) == ~IsBlankLine(line) /\ ~IsCommentLine(line)

\* the tab-separated field count of a line: its tabs and one
FieldCount(line) ==
    1 + Cardinality({j \in 1..Len(LineText(line)) : LineText(line)[j] = "\t"})

\* the values v[1], ..., v[n] with a tab between each two
RECURSIVE TabJoin(_)
TabJoin(v) ==
    IF Len(v) = 0 THEN <<>>
    ELSE IF Len(v) = 1 THEN v[1]
    ELSE v[1] \o <<"\t">> \o TabJoin(Tail(v))

\* the result r is what the Tabular parser statement says of the lines read
\* as rows under a header of distinct column names
RowsContract(r, lines, header) ==
    LET data == SelectSeq(lines, IsDataLine) IN
    IF \A j \in 1..Len(data) : FieldCount(data[j]) = Len(header)
    THEN /\ r.error = "none"
         /\ Len(r.rows) = Len(data)
         /\ \A j \in 1..Len(data) :
              /\ DOMAIN r.rows[j] = {header[c] : c \in 1..Len(header)}
              /\ TabJoin([c \in 1..Len(header) |-> r.rows[j][header[c]]])
                    = LineText(data[j])
    ELSE r.error = "MalformedRowError"

\* C13: with an explicit header of k columns the result is one row-record per
\* line that is neither blank nor a '#' line, in file order, each with the
\* header as its keys; '#' lines and blank lines give no row and no error; a
\* data line with a field count other than k fails the read with
\* MalformedRowError; with no header given the first line, its leading '#'
\* stripped, is the header and is not a data row
C13_TabularParser ==
    \A k \in 1..Len(tsvOut) :
      LET r == tsvOut[k] IN
      IF tsvHeader # <<>>
      THEN r.header = tsvHeader /\ RowsContract(r, tsvIn, tsvHeader)
      ELSE LET first == IF tsvIn = <<>> THEN <<>> ELSE LineText(tsvIn[1])
               rest  == IF tsvIn = <<>> THEN <<>> ELSE Tail(tsvIn)
           IN  /\ TabJoin(r.header) = LStrip(first, "#")
               /\ \A c \in 1..Len(r.header) :
                     \A j \in 1..Len(r.header[c]) : r.header[c][j] # "\t"
               /\ (\A c, d \in 1..Len(r.header) : c # d => r.header[c] # r.header[d])
                     => RowsContract(r, rest, r.header)

\* a file of a comment line, a two-field data line and a blank line has been
\* read under a two-column header into one row
C13_Witness ==
    /\ tsvOut # <<>>
    /\ Len(tsvHeader) = 2
    /\ Len(tsvIn) = 3
    /\ IsCommentLine(tsvIn[1]) /\ IsDataLine(tsvIn[2]) /\ IsBlankLine(tsvIn[3])
    /\ tsvOut[1].error = "none"
    /\ Len(tsvOut[1].rows) = 1

\* the wget commands run for sample i, the current one, in order
WgetsOf(i) ==
    LET IsWgetOf(c) == c.cmd = "wget" /\ c.i = i IN SelectSeq(cmdlog, IsWgetOf)

\* the files directly in the sample's working directory
InWorkingDir == {f \in files : Dirname(f) = temp_folder}

\* C14: right after an accession sample is resolved, all three variants have
\* been attempted whatever the earlier ones did; the fetch failed, with
\* FetchError, exactly when none of the three downloads exited 0; on success
\* the working directory holds <accession>.fastq and nothing else, so none of
\* the compressed variants
C14_AccessionFetch ==
    (hist # <<>> /\ LastEvent.step = "fetch"
       /\ StartsWith(samples[LastEvent.i], SraPrefix))
    => LET w == WgetsOf(LastEvent.i)
           accession == LastSegment(samples[LastEvent.i])
       IN  /\ Len(w) = 3
           /\ ~LastEvent.ok <=> \A k \in 1..3 : w[k].swallowed
           /\ ~LastEvent.ok => err = "FetchError"
           /\ LastEvent.ok =>
                 InWorkingDir = {PathJoin(temp_folder, accession \o DotFastq)}

\* an accession sample has been resolved although its first variant failed
\* to download
C14_Witness ==
    /\ hist # <<>>
    /\ LastEvent.step = "fetch"
    /\ LastEvent.ok
    /\ StartsWith(samples[LastEvent.i], SraPrefix)
    /\ Len(WgetsOf(LastEvent.i)) = 3
    /\ WgetsOf(LastEvent.i)[1].swallowed
    /\ ~WgetsOf(LastEvent.i)[3].swallowed

\* the steps that may directly follow a step of the same sample
StepsAfter(step) ==
    CASE step = "start"     -> {"skip", "fetch"}
      [] step = "fetch"     -> {"normalize"}
      [] step = "normalize" -> {"metaphlan"}
      [] step = "metaphlan" -> {"humann2"}
      [] step = "humann2"   -> {"aggregate"}
      [] step = "aggregate" -> {"gzip"}
      [] step = "gzip"      -> {"copy"}
      [] OTHER              -> {}

\* the command cmd was run for sample i and exited 0
ExitedZero(cmd, i) ==
    \E k \in 1..Len(cmdlog) :
      cmdlog[k].cmd = cmd /\ cmdlog[k].i = i /\ ~cmdlog[k].raised /\ ~cmdlog[k].swallowed

\* C15: the events of an invocation are sample 1's, then sample 2's, and so
\* on, never interleaved; each sample's are start, then skip or resolve,
\* normalize, taxonomic profiler, functional profiler, aggregate, publish
\* (gzip, copy), each begun only after the one before succeeded; the functional
\* profiler runs only after metaphlan2.py exited 0; publishing begins only
\* after both tools exited 0 and with one file of each of the three kinds in
\* the working directory; no working directory but the current sample's exists
C15_StepOrdering ==
    /\ hist # <<>> => hist[1].step = "start" /\ hist[1].i = 1
    /\ \A k \in 1..(Len(hist) - 1) :
         IF hist[k + 1].i = hist[k].i
         THEN hist[k].ok /\ hist[k + 1].step \in StepsAfter(hist[k].step)
         ELSE /\ hist[k + 1].i = hist[k].i + 1
              /\ hist[k + 1].step = "start"
              /\ hist[k].ok /\ hist[k].step \in {"skip", "copy"}
    /\ \A k \in 1..Len(hist) :
         hist[k].i = idx =>
           /\ hist[k].step = "humann2" => ExitedZero("metaphlan2.py", idx)
           /\ hist[k].step \in {"gzip", "copy"} =>
                 ExitedZero("metaphlan2.py", idx) /\ ExitedZero("humann2", idx)
    /\ pc \in {"gzip", "copy"} =>
         \A x \in RequiredSuffixes :
           Cardinality({f \in InWorkingDir : EndsWith(f, x)}) = 1
    /\ (created \cap dirs) \subseteq {temp_folder}

\* two samples have been processed one after the other, each through every
\* step
C15_Witness ==
    /\ pc = "done"
    /\ run = 1
    /\ Len(samples) = 2
    /\ Passed(1) /\ Passed(2)
    /\ Len(hist) = 16

\* the command the run stopped on was a download: the database sync (no step
\* of a sample has begun) or the fetch of an s3:// or ftp:// sample
StoppedOnDownload ==
    /\ pc = "aborted"
    /\ err = "ProcessError"
    /\ cmdlog # <<>>
    /\ hist = <<>> \/ LastEvent.step = "fetch"

\* C16: a download (S3 or FTP sample fetch, database sync) whose command
\* exits nonzero is run again at least once before its failure stops the run
C16_DownloadRetried ==
    StoppedOnDownload => cmdlog[Len(cmdlog)].attempts >= 2

\* C17: with an S3 output target a sample is skipped only when an object
\* exists at exactly the key <output_folder>/<basename>.json.gz
C17_SkipOnlyOnExactKey ==
    (hist # <<>> /\ LastEvent.step = "skip" /\ StartsWith(output_folder, S3Prefix))
    => \E o \in s3 :
         S3Prefix \o o.bucket \o <<"/">> \o o.key = output_fp(samples[LastEvent.i])

\* the output target held nothing when the first invocation started (what was
\* there before is never removed)
TargetStartedEmpty == \A o \in s3 : o.rec.run # 0

\* C18: in a first invocation on an empty output target, with pairwise
\* distinct sample references, no sample is skipped at the existence check,
\* and when the run ends with every step passed each sample has its own
\* published Result Record
C18_NoSampleDropped ==
    (run = 1 /\ TargetStartedEmpty
       /\ \A i, j \in 1..Len(samples) : i # j => samples[i] # samples[j])
    => /\ \A k \in 1..Len(hist) : hist[k].step # "skip"
       /\ pc = "done" =>
             \A i \in 1..Len(samples) :
               \E t \in TargetRecords :
                 t.rec = [input |-> samples[i], run |-> 1, i |-> i]

\* C19: the file at a local sample reference's path is never renamed, moved
\* or deleted: a file is at that path in every state, whatever the outcome
C19_InputFileLeftInPlace ==
    \A i \in 1..Len(samples) : samples[i] = RefLocal => RefLocal \in files

====
